---- MODULE Spec2Model ----
(***************************************************************************)
(* OEE analysis pipeline of the FMCG biscuit line repository:              *)
(*   OEEAnalyzer.generate_production_data   (src/oee_analysis.py)          *)
(*   OEEAnalyzer.calculate_oee_metrics      (src/oee_analysis.py)          *)
(*   OEEAnalyzer.machine_wise_analysis / shift_wise_analysis /             *)
(*       monthly_trend_analysis             (src/oee_analysis.py)          *)
(*   DetailedOEEAnalysis.__init__ / downtime_pareto_analysis /             *)
(*       speed_loss_analysis                (src/detailed_analysis.py)     *)
(*   OEEImprovementPlan.__init__ / simulate_improvement_impact             *)
(*                                   (src/improvement_recommendations.py)  *)
(*                                                                         *)
(* A pandas DataFrame is an object on a heap: `heap` is the sequence of    *)
(* tables allocated so far and every program variable that holds a         *)
(* DataFrame holds an index into it (None = 0).  Two variables holding the *)
(* same index alias the same DataFrame, as in Python.                      *)
(*                                                                         *)
(* A table is a sequence of rows; a row is a function from column names to *)
(* values.  Numeric cells are IEEE doubles in the program; they are        *)
(* modelled as exact extended rationals [n, d]: d > 0 a fraction in lowest *)
(* terms, 0/0 = NaN, 1/0 = +inf, -1/0 = -inf.                              *)
(***************************************************************************)
EXTENDS Integers, Sequences, FiniteSets, TLC

\* ------------------------------------------------------------------------
\* Bounds of the model
\* ------------------------------------------------------------------------
\* largest num_records passed to generate_production_data
MaxRecords == 1
\* largest batch handed directly to calculate_oee_metrics
MaxBatch == 2
\* largest batch handed to the aggregations
MaxRows == 3
\* largest batch handed to the downtime Pareto
MaxDowntimeRows == 4
\* largest batch handed to the speed-loss analysis (one more than the 10
\* records nlargest keeps)
MaxSpeedRows == 11

\* ------------------------------------------------------------------------
\* Numbers: extended rationals standing for pandas float64 / int64 cells
\* ------------------------------------------------------------------------
Abs(x) == IF x < 0 THEN -x ELSE x

Sign(x) == IF x > 0 THEN 1 ELSE IF x < 0 THEN -1 ELSE 0

RECURSIVE GCD(_, _)
GCD(a, b) == IF b = 0 THEN a ELSE GCD(b, a % b)

NaN == [n |-> 0, d |-> 0]

Inf(s) == [n |-> s, d |-> 0]

Norm(n, d) ==
    LET g == GCD(Abs(n), d)
    IN  [n |-> n \div g, d |-> d \div g]

R(i) == [n |-> i, d |-> 1]

IsNaN(a) == a.d = 0 /\ a.n = 0

IsFinite(a) == a.d > 0

\* float multiplication
RMul(a, b) ==
    IF IsFinite(a) /\ IsFinite(b)
    THEN LET g1 == GCD(Abs(a.n), b.d)
             g2 == GCD(Abs(b.n), a.d)
         IN  [n |-> (a.n \div g1) * (b.n \div g2),
              d |-> (a.d \div g2) * (b.d \div g1)]
    ELSE IF IsNaN(a) \/ IsNaN(b) \/ a.n = 0 \/ b.n = 0
         THEN NaN
         ELSE Inf(Sign(a.n) * Sign(b.n))

\* float division as numpy does it: x/0 is +-inf, 0/0 is NaN, no exception
RDiv(a, b) ==
    IF IsFinite(a) /\ IsFinite(b)
    THEN IF b.n = 0
         THEN Inf(Sign(a.n))
         ELSE RMul(a, [n |-> Sign(b.n) * b.d, d |-> Abs(b.n)])
    ELSE IF IsNaN(a) \/ IsNaN(b) \/ (~IsFinite(a) /\ ~IsFinite(b))
         THEN NaN
         ELSE IF IsFinite(a)
              THEN R(0)
              ELSE Inf(Sign(a.n) * (IF b.n < 0 THEN -1 ELSE 1))

\* float subtraction
RSub(a, b) ==
    IF IsFinite(a) /\ IsFinite(b)
    THEN LET g == GCD(a.d, b.d)
             l == (a.d \div g) * b.d
         IN  Norm(a.n * (l \div a.d) - b.n * (l \div b.d), l)
    ELSE IF IsNaN(a) \/ IsNaN(b) \/ (~IsFinite(a) /\ ~IsFinite(b) /\ a.n = b.n)
         THEN NaN
         ELSE IF IsFinite(b) THEN a ELSE Inf(-b.n)

RAdd(a, b) == RSub(a, [n |-> -b.n, d |-> b.d])

\* a <= b on floats: every comparison with NaN is false
RLe(a, b) ==
    IF IsNaN(a) \/ IsNaN(b) THEN FALSE
    ELSE IF IsFinite(a) /\ IsFinite(b) THEN a.n * b.d <= b.n * a.d
    ELSE IF ~IsFinite(a) THEN a.n < 0 \/ a = b
    ELSE b.n > 0

RLt(a, b) == RLe(a, b) /\ a # b

\* Python max(0, x) and min(x, cap) on floats
RMax0(x) == IF RLt(R(0), x) THEN x ELSE R(0)

RMin(x, cap) == IF RLt(cap, x) THEN cap ELSE x

\* Python int(x) for a finite float: truncation toward zero
Trunc(a) ==
    IF a.n >= 0 THEN R(a.n \div a.d) ELSE R(-((-a.n) \div a.d))

\* Python round(x, k) with s = 10^k: nearest multiple of 1/s, a tie that
\* is exact in binary goes to the even neighbour
RoundTo(a, s) ==
    LET num == a.n * s
        f   == num \div a.d
        r2  == 2 * (num % a.d)
        q   == IF r2 > a.d THEN f + 1
               ELSE IF r2 < a.d THEN f
               ELSE IF f % 2 = 0 THEN f ELSE f + 1
    IN  Norm(q, s)

\* DataFrame.round(k) / Series.round(k) with s = 10^k: NaN and the
\* infinities stay, a finite cell goes to the nearest multiple of 1/s (tie
\* to the even neighbour); the quotient is taken before the scaling so that
\* large numerators stay within the integers of the checker
NpRound(a, s) ==
    IF ~IsFinite(a) THEN a
    ELSE LET whole == a.n \div a.d
             part  == (a.n % a.d) * s
             f     == whole * s + (part \div a.d)
             rem   == part % a.d
             q     == IF rem > a.d - rem THEN f + 1
                      ELSE IF rem < a.d - rem THEN f
                      ELSE IF f % 2 = 0 THEN f ELSE f + 1
         IN  Norm(q, s)

\* pandas Series.clip(upper=u): NaN stays NaN
ClipUpper(a, u) == IF RLt(u, a) THEN u ELSE a

\* ------------------------------------------------------------------------
\* OEEAnalyzer.__init__: the fixed plant parameters
\* ------------------------------------------------------------------------
None == 0

\* the attributes of an OEEAnalyzer (there is no assignment to any other
\* attribute in the class) and the kind of value each of them holds
AnalyzerAttributes ==
    [machines                   |-> "list",
     shifts                     |-> "list",
     downtime_reasons           |-> "list",
     defect_types               |-> "list",
     cycle_times                |-> "dict",
     planned_production_minutes |-> "dict",
     raw_data                   |-> "DataFrame",
     oee_results                |-> "DataFrame"]

machines == <<"Mixer", "Filler", "Packer", "Conveyor">>

shifts == <<"Morning", "Afternoon", "Night">>

\* cycle_times[machine]['ideal'], seconds per unit
IdealCycle(machine) ==
    CASE machine = "Mixer"    -> R(45)
      [] machine = "Filler"   -> Norm(25, 10)
      [] machine = "Packer"   -> R(3)
      [] machine = "Conveyor" -> Norm(18, 10)

\* ActualRange with the Conveyor range starting below its ideal cycle time
ActualRangeFast(machine) ==
    CASE machine = "Mixer"    -> <<R(48), R(65)>>
      [] machine = "Filler"   -> <<Norm(28, 10), Norm(42, 10)>>
      [] machine = "Packer"   -> <<Norm(32, 10), Norm(48, 10)>>
      [] machine = "Conveyor" -> <<Norm(17, 10), Norm(25, 10)>>

\* cycle_times[machine]['actual_range'] = (low, high)
ActualRange(machine) ==
    CASE machine = "Mixer"    -> <<R(48), R(65)>>
      [] machine = "Filler"   -> <<Norm(28, 10), Norm(42, 10)>>
      [] machine = "Packer"   -> <<Norm(32, 10), Norm(48, 10)>>
      [] machine = "Conveyor" -> <<Norm(19, 10), Norm(25, 10)>>

\* planned_production_minutes[shift]
PlannedMinutes(shift) ==
    CASE shift = "Morning"   -> R(480)
      [] shift = "Afternoon" -> R(480)
      [] shift = "Night"     -> R(420)

\* the (low, high) of the np.random.uniform defect-rate draw, in percent
DefectRange(machine) ==
    CASE machine = "Filler" -> <<Norm(8, 10), Norm(35, 10)>>
      [] machine = "Packer" -> <<Norm(5, 10), R(2)>>
      [] OTHER              -> <<Norm(2, 10), R(1)>>

ProductionCols ==
    {"Date", "Shift", "Machine_Name", "Planned_Production_Time",
     "Downtime_Minutes", "Downtime_Reason", "Ideal_Cycle_Time",
     "Actual_Cycle_Time", "Total_Units_Produced", "Defective_Units",
     "Good_Units"}

MetricCols == {"Availability", "Performance", "Quality", "OEE"}

\* ------------------------------------------------------------------------
\* The random draws of one loop iteration of generate_production_data
\* ------------------------------------------------------------------------
\* random.randint(0, 180): 0 is Tuesday 2025-07-01, 40 is Sunday 2025-08-10
DayOffsets == {0, 40}

\* np.random.normal(downtime_mean, 15), minutes: any real whatever the mean
\* (the machine's mean only weights the draw); values off the rounding ties
NormalDraws ==
    {Norm(-500, 100), Norm(3, 100), Norm(2996, 100), Norm(6004, 100),
     Norm(25000, 100)}

\* the unit draw u in [0, 1) behind np.random.uniform(low, high)
CycleDraws == {Norm(337, 1000)}

DefectDraws == {Norm(999, 1000)}


\* low + (high - low) * u
Uniform(range, u) == RAdd(range[1], RMul(RSub(range[2], range[1]), u))

\* start_date + timedelta(days=offset) as (year, month, day), start_date
\* being 2025-07-01; strftime('%Y-%m-%d') prints these three numbers
RECURSIVE DateFrom(_, _, _)
DateFrom(month, day, offset) ==
    LET len == IF month \in {9, 11} THEN 30 ELSE 31
    IN  IF day + offset <= len
        THEN <<2025, month, day + offset>>
        ELSE DateFrom(month + 1, 1, offset - (len - day + 1))

CurrentDate(offset) == DateFrom(7, 1, offset)

\* datetime.weekday(): Monday = 0 ... Sunday = 6; 2025-07-01 is a Tuesday
Weekday(offset) == (1 + offset) % 7

\* line 68: the attempt is dropped
Skipped(dr) == Weekday(dr.offset) >= 6 /\ dr.skip

\* DowntimeOf capped at the whole planned time
DowntimeCappedAtPlanned(dr) ==
    RMin(RMax0(dr.normal), PlannedMinutes(shifts[dr.shift]))

\* DowntimeOf without the cap of line 88
DowntimeUncapped(dr) == RMax0(dr.normal)

\* lines 87-88: the downtime of the attempt, before it is rounded for storage
DowntimeOf(dr) ==
    RMin(RMax0(dr.normal),
         RMul(PlannedMinutes(shifts[dr.shift]), Norm(5, 10)))

\* lines 91-99
ReasonOf(downtime_minutes, pick) ==
    IF RLt(R(0), downtime_minutes)
    THEN IF RLt(R(60), downtime_minutes)
         THEN <<"Breakdown", "Changeover">>[pick]
         ELSE IF RLt(R(30), downtime_minutes)
              THEN <<"Cleaning", "Breakdown">>[pick]
              ELSE <<"Minor Stoppage", "Power Failure">>[pick]
    ELSE "None"

\* lines 106-107
TotalUnitsOf(planned_time, downtime_minutes, actual_cycle) ==
    Trunc(RDiv(RMul(RSub(planned_time, downtime_minutes), R(60)),
               actual_cycle))

\* DefectiveUnitsOf that reads the rate as a fraction, not as a percentage
DefectiveUnitsOfFraction(total_units, defect_rate) ==
    Trunc(RMul(total_units, defect_rate))

\* line 117
DefectiveUnitsOf(total_units, defect_rate) ==
    Trunc(RDiv(RMul(total_units, defect_rate), R(100)))

\* lines 71-131: the record appended for a kept attempt
GenRecord(dr) ==
    LET shift            == shifts[dr.shift]
        machine          == machines[dr.machine]
        planned_time     == PlannedMinutes(shift)
        downtime_minutes == DowntimeOf(dr)
        reason           == ReasonOf(downtime_minutes, dr.pick)
        ideal_cycle      == IdealCycle(machine)
        actual_cycle     == Uniform(ActualRange(machine), dr.cycle)
        total_units      == TotalUnitsOf(planned_time, downtime_minutes,
                                         actual_cycle)
        defect_rate      == Uniform(DefectRange(machine), dr.defect)
        defective_units  == DefectiveUnitsOf(total_units, defect_rate)
    IN  [Date                    |-> CurrentDate(dr.offset),
         Shift                   |-> shift,
         Machine_Name            |-> machine,
         Planned_Production_Time |-> planned_time,
         Downtime_Minutes        |-> RoundTo(downtime_minutes, 10),
         Downtime_Reason         |-> reason,
         Ideal_Cycle_Time        |-> ideal_cycle,
         Actual_Cycle_Time       |-> RoundTo(actual_cycle, 100),
         Total_Units_Produced    |-> total_units,
         Defective_Units         |-> defective_units,
         Good_Units              |-> RSub(total_units, defective_units)]

\* The draws one attempt can make.  random.random() is called only for a
\* date that falls on the non-working day (short-circuit `and`, line 68) and
\* random.choice only for a positive downtime (line 91); a draw that is not
\* made is recorded as FALSE / 1.
AttemptDraws ==
    {dr \in [offset : DayOffsets, skip : BOOLEAN, shift : 1..Len(shifts),
             machine : 1..Len(machines), normal : NormalDraws, pick : 1..2,
             cycle : CycleDraws, defect : DefectDraws] :
        /\ dr.skip => Weekday(dr.offset) >= 6
        /\ dr.pick = 2 => RLt(R(0), dr.normal)}

\* The draws at the ends of the ranges: a Tuesday attempt of every shift
\* and machine, a normal draw below zero, one that is stored rounded up
\* (209.96 as 210.0) and one far above the cap, and the uniform draws of
\* cycle time and defect rate at the low end and next to the high end of
\* [0, 1)
RangeDraws ==
    [offset : {0}, skip : {FALSE}, shift : 1..Len(shifts),
     machine : 1..Len(machines),
     normal : {Norm(-500, 100), Norm(20996, 100), Norm(50000, 100)},
     pick : {1}, cycle : {Norm(0, 1), Norm(999, 1000)},
     defect : {Norm(0, 1), Norm(999, 1000)}]

\* the record of every draw, tabulated once (@@ makes the table explicit)
RecordOf == [dr \in AttemptDraws \cup RangeDraws |-> GenRecord(dr)] @@ <<>>

\* lines 63-69 of one loop iteration: the date drawn and whether the
\* iteration ended at `continue`
AttemptOf(dr) == [offset |-> dr.offset, skipped |-> Skipped(dr)]

\* GenData that appends a record for a skipped attempt as well
GenDataKeepSkipped(draws, i) ==
    [j \in 1..(Len(draws) - i + 1) |-> RecordOf[draws[i + j - 1]]]

\* lines 59-131: the list `data` after the attempts draws[i..]
RECURSIVE GenData(_, _)
GenData(draws, i) ==
    IF i > Len(draws) THEN <<>>
    ELSE IF Skipped(draws[i]) THEN GenData(draws, i + 1)
    ELSE <<RecordOf[draws[i]]>> \o GenData(draws, i + 1)

\* ------------------------------------------------------------------------
\* State
\* ------------------------------------------------------------------------
VARIABLES
    heap,             \* the DataFrames allocated so far
    raw_data,         \* OEEAnalyzer.raw_data
    oee_results,      \* OEEAnalyzer.oee_results
    production_data,  \* the caller's result of generate_production_data
    oee_data,         \* the caller's result of calculate_oee_metrics
    current_data,     \* OEEImprovementPlan.current_data
    baseline_oee,     \* OEEImprovementPlan.baseline_oee (NaN before __init__)
    improved_data,    \* the caller's result of simulate_improvement_impact
    fault,            \* the exception that ended the run, or "none"
    attempts,         \* generate_production_data: date offset and outcome
                      \* of every loop iteration of the call
    calls,            \* number of calculate_oee_metrics calls made
    machine_analysis, \* the caller's result of machine_wise_analysis
    shift_analysis,   \* the caller's result of shift_wise_analysis
    monthly_analysis, \* the caller's result of monthly_trend_analysis
    detailed_data,    \* DetailedOEEAnalysis.data
    detailed_raw,     \* DetailedOEEAnalysis.raw_data
    downtime_summary, \* first result of downtime_pareto_analysis
    machine_downtime, \* second result of downtime_pareto_analysis
    speed_loss_summary, \* first result of speed_loss_analysis
    worst_speed,      \* second result of speed_loss_analysis
    quality_summary,  \* first result of quality_loss_analysis
    shift_quality,    \* second result of quality_loss_analysis
    sort_memo,        \* the table last sorted by sort_values and the row
                      \* order the sort gave it (<<>> before the first sort)
    repeats           \* the loss analyses that were called a second time

\* the results held by the caller of the three aggregations
aggVars == <<machine_analysis, shift_analysis, monthly_analysis>>

\* the DetailedOEEAnalysis object and the results of its analyses
lossVars ==
    <<detailed_data, detailed_raw, downtime_summary, machine_downtime,
      speed_loss_summary, worst_speed, quality_summary, shift_quality,
      sort_memo, repeats>>

vars ==
    <<heap, raw_data, oee_results, production_data, oee_data, current_data,
      baseline_oee, improved_data, fault, attempts, calls, aggVars, lossVars>>

\* ------------------------------------------------------------------------
\* Table helpers (pandas)
\* ------------------------------------------------------------------------
\* df[c] = series, seen from one row: the cell is added, or replaced (the
\* column assignments of the program are element-wise, row by row)
SetCell(row, c, v) == (c :> v) @@ row

Columns(row) == DOMAIN row

RECURSIVE SumFrom(_, _, _)
SumFrom(table, c, i) ==
    IF i > Len(table) THEN R(0)
    ELSE IF IsNaN(table[i][c]) THEN SumFrom(table, c, i + 1)
    ELSE RAdd(table[i][c], SumFrom(table, c, i + 1))

\* Series.mean(): NaN cells are skipped, the mean of nothing is NaN
Mean(table, c) ==
    LET k == Cardinality({i \in 1..Len(table) : ~IsNaN(table[i][c])})
    IN  IF k = 0 THEN NaN ELSE RDiv(SumFrom(table, c, 1), R(k))

\* ------------------------------------------------------------------------
\* OEEAnalyzer.calculate_oee_metrics, per row
\* ------------------------------------------------------------------------
\* lines 150-151
AvailabilityOf(row) ==
    RMul(RDiv(RSub(row.Planned_Production_Time, row.Downtime_Minutes),
              row.Planned_Production_Time), R(100))

\* PerformanceOf over the planned time instead of the operating time
PerformanceOverPlanned(row) ==
    RMul(RDiv(RMul(row.Ideal_Cycle_Time, row.Total_Units_Produced),
              RMul(row.Planned_Production_Time, R(60))), R(100))

\* lines 154-156
PerformanceOf(row) ==
    LET operating_time ==
            RSub(row.Planned_Production_Time, row.Downtime_Minutes)
    IN  RMul(RDiv(RMul(row.Ideal_Cycle_Time, row.Total_Units_Produced),
                  RMul(operating_time, R(60))), R(100))

\* line 159
QualityOf(row) ==
    RMul(RDiv(row.Good_Units, row.Total_Units_Produced), R(100))

\* line 162, read after the three columns above are set and before the clip
OEEOf(row) ==
    RDiv(RMul(RMul(row.Availability, row.Performance), row.Quality),
         R(10000))

\* lines 165-166: df[metric_cols].clip(upper=100)
ClipMetrics(row) ==
    [c \in DOMAIN row |->
        IF c \in MetricCols THEN ClipUpper(row[c], R(100)) ELSE row[c]]

\* MetricsRow that keeps the operating time in Planned_Production_Time
\* instead of a local variable
MetricsRowNetPlanned(row) ==
    LET r1 == SetCell(row, "Availability", AvailabilityOf(row))
        r2 == SetCell(r1, "Performance", PerformanceOf(r1))
        r3 == SetCell(r2, "Quality", QualityOf(r2))
        r4 == SetCell(r3, "OEE", OEEOf(r3))
        r5 == SetCell(r4, "Planned_Production_Time",
                      RSub(row.Planned_Production_Time,
                           row.Downtime_Minutes))
    IN  ClipMetrics(r5)

\* lines 150-166 on one row, in the order of the assignments
MetricsRow(row) ==
    LET r1 == SetCell(row, "Availability", AvailabilityOf(row))
        r2 == SetCell(r1, "Performance", PerformanceOf(r1))
        r3 == SetCell(r2, "Quality", QualityOf(r2))
        r4 == SetCell(r3, "OEE", OEEOf(r3))
    IN  ClipMetrics(r4)

\* WithMetrics that drops the records without units before the division
WithMetricsDropped(table) ==
    LET kept == SelectSeq(table,
                          LAMBDA row : row.Total_Units_Produced # R(0))
    IN  [i \in 1..Len(kept) |-> MetricsRow(kept[i])]

\* lines 150-166 on the whole table
WithMetrics(table) == [i \in 1..Len(table) |-> MetricsRow(table[i])]

\* ------------------------------------------------------------------------
\* OEEImprovementPlan.simulate_improvement_impact, per row
\* ------------------------------------------------------------------------
\* ReducedDowntime with the downtime raised by 35%
RaisedDowntime(row) == RMul(row.Downtime_Minutes, Norm(135, 100))

\* line 153
ReducedDowntime(row) == RMul(row.Downtime_Minutes, Norm(65, 100))

\* line 158
ImprovedCycle(row) == RMul(row.Actual_Cycle_Time, Norm(85, 100))

\* line 164
HalvedDefects(row) == RMul(row.Defective_Units, Norm(5, 10))

\* GoodUnitsOf that keeps the good units of the baseline
GoodUnitsStale(row) == row.Good_Units

\* line 165
GoodUnitsOf(row) == RSub(row.Total_Units_Produced, row.Defective_Units)

\* lines 153-173 on one row of the copy, in the order of the assignments
ImprovedRow(row) ==
    LET r1 == SetCell(row, "Downtime_Minutes", ReducedDowntime(row))
        r2 == SetCell(r1, "Availability", AvailabilityOf(r1))
        r3 == SetCell(r2, "Actual_Cycle_Time", ImprovedCycle(r2))
        r4 == SetCell(r3, "Performance", PerformanceOf(r3))
        r5 == SetCell(r4, "Defective_Units", HalvedDefects(r4))
        r6 == SetCell(r5, "Good_Units", GoodUnitsOf(r5))
        r7 == SetCell(r6, "Quality", QualityOf(r6))
        r8 == SetCell(r7, "OEE", OEEOf(r7))
    IN  ClipMetrics(r8)

\* lines 153-173 on the whole copy
Improved(table) == [i \in 1..Len(table) |-> ImprovedRow(table[i])]

\* ------------------------------------------------------------------------
\* Operations
\* ------------------------------------------------------------------------
\* no generator call, no calculator call, no analysis object and no result
NothingAnalysed ==
    /\ attempts = <<>>
    /\ calls = 0
    /\ machine_analysis = None
    /\ shift_analysis = None
    /\ monthly_analysis = None
    /\ detailed_data = None
    /\ detailed_raw = None
    /\ downtime_summary = None
    /\ machine_downtime = None
    /\ speed_loss_summary = None
    /\ worst_speed = None
    /\ quality_summary = None
    /\ shift_quality = None
    /\ sort_memo = <<>>
    /\ repeats = {}

Init ==
    /\ heap = <<>>
    /\ raw_data = None
    /\ oee_results = None
    /\ production_data = None
    /\ oee_data = None
    /\ current_data = None
    /\ baseline_oee = NaN
    /\ improved_data = None
    /\ fault = "none"
    /\ NothingAnalysed

\* production_data = analyzer.generate_production_data(n).  A run in which
\* every attempt is skipped builds an empty DataFrame without columns, so
\* df['Date'] at line 137 raises KeyError after raw_data has been set.
GenerateWith(draws) ==
    LET data == GenData(draws, 1)
        df   == Len(heap) + 1
    IN  /\ heap' = Append(heap, data)
        /\ raw_data' = df
        /\ production_data' = IF Len(data) = 0 THEN None ELSE df
        /\ fault' = IF Len(data) = 0 THEN "KeyError" ELSE "none"
        /\ attempts' = [i \in 1..Len(draws) |-> AttemptOf(draws[i])]

Generate ==
    /\ fault = "none"
    /\ raw_data = None
    /\ production_data = None
    /\ \E n \in 1..MaxRecords :
         \E draws \in [1..n -> AttemptDraws] : GenerateWith(draws)
    /\ UNCHANGED <<oee_results, oee_data, current_data, baseline_oee,
                   improved_data, calls, aggVars, lossVars>>

\* oee_data = analyzer.calculate_oee_metrics(production_data): the columns
\* are assigned on the DataFrame passed in, oee_results is a copy of it and
\* the DataFrame passed in is returned.
Calculate ==
    /\ fault = "none"
    /\ production_data # None
    /\ oee_data = None
    /\ LET df == WithMetrics(heap[production_data])
       IN  /\ heap' = Append([heap EXCEPT ![production_data] = df], df)
           /\ oee_results' = Len(heap) + 1
           /\ oee_data' = production_data
           /\ calls' = calls + 1
    /\ UNCHANGED <<raw_data, production_data, current_data, baseline_oee,
                   improved_data, fault, attempts, aggVars, lossVars>>

\* improvement_plan = OEEImprovementPlan(analyzer, detailed_analyzer)
NewPlan ==
    /\ fault = "none"
    /\ oee_results # None
    /\ current_data = None
    /\ heap' = Append(heap, heap[oee_results])
    /\ current_data' = Len(heap) + 1
    /\ baseline_oee' = Mean(heap[oee_results], "OEE")
    /\ UNCHANGED <<raw_data, oee_results, production_data, oee_data,
                   improved_data, fault, attempts, calls, aggVars, lossVars>>

\* Simulate without the copy of line 149: the columns are assigned on
\* current_data itself
SimulateInPlace ==
    /\ fault = "none"
    /\ current_data # None
    /\ improved_data = None
    /\ heap' = [heap EXCEPT ![current_data] = Improved(heap[current_data])]
    /\ improved_data' = current_data
    /\ UNCHANGED <<raw_data, oee_results, production_data, oee_data,
                   current_data, baseline_oee, fault, attempts, calls,
                   aggVars, lossVars>>

\* improved_data, _ = improvement_plan.simulate_improvement_impact(...)
Simulate ==
    /\ fault = "none"
    /\ current_data # None
    /\ improved_data = None
    /\ heap' = Append(heap, Improved(heap[current_data]))
    /\ improved_data' = Len(heap) + 1
    /\ UNCHANGED <<raw_data, oee_results, production_data, oee_data,
                   current_data, baseline_oee, fault, attempts, calls,
                   aggVars, lossVars>>

Next == Generate \/ Calculate \/ NewPlan \/ Simulate

Spec == Init /\ [][Next]_vars

\* ------------------------------------------------------------------------
\* The simulator with its draws at the ends of their ranges
\* ------------------------------------------------------------------------
GenerateRange ==
    /\ fault = "none"
    /\ raw_data = None
    /\ production_data = None
    /\ \E n \in 1..MaxRecords :
         \E draws \in [1..n -> RangeDraws] : GenerateWith(draws)
    /\ UNCHANGED <<oee_results, oee_data, current_data, baseline_oee,
                   improved_data, calls, aggVars, lossVars>>

NextRange == GenerateRange \/ Calculate

SpecRange == Init /\ [][NextRange]_vars

\* ------------------------------------------------------------------------
\* The calculator called a second time on the simulator output
\* ------------------------------------------------------------------------
\* analyzer.calculate_oee_metrics(production_data) once more, on the
\* DataFrame that the first call has already given its metric columns
Recalculate ==
    /\ fault = "none"
    /\ oee_data # None
    /\ calls = 1
    /\ LET df == WithMetrics(heap[production_data])
       IN  /\ heap' = Append([heap EXCEPT ![production_data] = df], df)
           /\ oee_results' = Len(heap) + 1
           /\ oee_data' = production_data
           /\ calls' = calls + 1
    /\ UNCHANGED <<raw_data, production_data, current_data, baseline_oee,
                   improved_data, fault, attempts, aggVars, lossVars>>

NextTwice == Generate \/ Calculate \/ Recalculate

SpecTwice == Init /\ [][NextTwice]_vars

\* ------------------------------------------------------------------------
\* The calculator on a batch built by its caller (not by the simulator):
\* records within the data-model constraints 0 <= downtime <= planned / 2,
\* 0 <= defective <= total units, total units >= 0, positive cycle times
\* ------------------------------------------------------------------------
CalcDowntimes == {R(0), Norm(453, 10), R(240)}

\* (total_units_produced, actual_cycle_time)
CalcUnits ==
    {<<R(0), R(5)>>, <<R(2880), R(5)>>, <<R(11520), Norm(25, 10)>>,
     <<R(23040), Norm(125, 100)>>}

CalcDefects == {R(0), R(288)}

CalcRecords ==
    {[Date                    |-> <<2025, 7, 1>>,
      Shift                   |-> s,
      Machine_Name            |-> "Filler",
      Planned_Production_Time |-> PlannedMinutes(s),
      Downtime_Minutes        |-> dt,
      Downtime_Reason         |-> IF dt = R(0) THEN "None" ELSE "Breakdown",
      Ideal_Cycle_Time        |-> IdealCycle("Filler"),
      Actual_Cycle_Time       |-> u[2],
      Total_Units_Produced    |-> u[1],
      Defective_Units         |-> df,
      Good_Units              |-> RSub(u[1], df)] :
        s \in {"Morning", "Night"}, dt \in CalcDowntimes, u \in CalcUnits,
        df \in CalcDefects}

InDataModel(row) ==
    /\ RLe(R(0), row.Downtime_Minutes)
    /\ RLe(row.Downtime_Minutes,
           RMul(row.Planned_Production_Time, Norm(5, 10)))
    /\ RLe(R(0), row.Defective_Units)
    /\ RLe(row.Defective_Units, row.Total_Units_Produced)
    /\ RLt(R(0), row.Ideal_Cycle_Time)
    /\ RLt(R(0), row.Actual_Cycle_Time)

CalcInputs == {row \in CalcRecords : InDataModel(row)}

InitCalc ==
    /\ \E n \in 0..MaxBatch :
         \E batch \in [1..n -> CalcInputs] : heap = <<batch>>
    /\ raw_data = None
    /\ oee_results = None
    /\ production_data = 1
    /\ oee_data = None
    /\ current_data = None
    /\ baseline_oee = NaN
    /\ improved_data = None
    /\ fault = "none"
    /\ NothingAnalysed

NextCalc == Calculate \/ NewPlan \/ Simulate

SpecCalc == InitCalc /\ [][NextCalc]_vars

\* ------------------------------------------------------------------------
\* The aggregations of OEEAnalyzer (pandas groupby / agg / round).  The
\* 'std' column of machine_wise_analysis (OEE_Std) is a square root and has
\* no exact rational value: it is the one column left out of the model.
\* ------------------------------------------------------------------------
\* Python's order of the strings used as grouping keys: the names of the
\* plant and three names from outside the fixed sets
NameOrder ==
    <<"Afternoon", "Breakdown", "Changeover", "Cleaning", "Conveyor",
      "Evening", "Filler", "Minor Stoppage", "Mixer", "Morning", "Night",
      "None", "Oven", "Packer", "Power Failure", "Sabotage">>

NameRank ==
    [k \in {NameOrder[i] : i \in 1..Len(NameOrder)} |->
        CHOOSE i \in 1..Len(NameOrder) : NameOrder[i] = k]

\* the keys of df.groupby(c): the values that occur in column c
KeysOf(table, c) == {table[i][c] : i \in 1..Len(table)}

\* SortedKeys with the keys in descending order
RECURSIVE SortedKeysDescending(_, _)
SortedKeysDescending(keys, rank) ==
    IF keys = {} THEN <<>>
    ELSE LET last == CHOOSE k \in keys :
                        \A j \in keys : rank[k] >= rank[j]
         IN  <<last>> \o SortedKeysDescending(keys \ {last}, rank)

\* groupby(..., sort=True), the default: the groups come in ascending order
\* of their key
RECURSIVE SortedKeys(_, _)
SortedKeys(keys, rank) ==
    IF keys = {} THEN <<>>
    ELSE LET first == CHOOSE k \in keys :
                         \A j \in keys : rank[k] <= rank[j]
         IN  <<first>> \o SortedKeys(keys \ {first}, rank)

\* the records of one group, in the order of the table
Group(table, c, k) == SelectSeq(table, LAMBDA row : row[c] = k)

\* 'min' and 'max' of a column: NaN cells are skipped
MinOf(table, c) ==
    LET vals == {table[i][c] : i \in 1..Len(table)} \ {NaN}
    IN  IF vals = {} THEN NaN
        ELSE CHOOSE v \in vals : \A w \in vals : RLe(v, w)

MaxOf(table, c) ==
    LET vals == {table[i][c] : i \in 1..Len(table)} \ {NaN}
    IN  IF vals = {} THEN NaN
        ELSE CHOOSE v \in vals : \A w \in vals : RLe(w, v)

\* MachineStatsRow that sums the good units into Total_Units
MachineStatsRowGood(group, k) ==
    [Machine_Name      |-> k,
     OEE_Mean          |-> NpRound(Mean(group, "OEE"), 100),
     OEE_Min           |-> NpRound(MinOf(group, "OEE"), 100),
     OEE_Max           |-> NpRound(MaxOf(group, "OEE"), 100),
     Availability_Mean |-> NpRound(Mean(group, "Availability"), 100),
     Performance_Mean  |-> NpRound(Mean(group, "Performance"), 100),
     Quality_Mean      |-> NpRound(Mean(group, "Quality"), 100),
     Total_Units       |-> NpRound(SumFrom(group, "Good_Units", 1), 100),
     Defective_Units   |-> NpRound(SumFrom(group, "Defective_Units", 1), 100),
     Avg_Downtime      |-> NpRound(Mean(group, "Downtime_Minutes"), 100)]

\* oee_analysis.py lines 182-194: the row of one machine
MachineStatsRow(group, k) ==
    [Machine_Name      |-> k,
     OEE_Mean          |-> NpRound(Mean(group, "OEE"), 100),
     OEE_Min           |-> NpRound(MinOf(group, "OEE"), 100),
     OEE_Max           |-> NpRound(MaxOf(group, "OEE"), 100),
     Availability_Mean |-> NpRound(Mean(group, "Availability"), 100),
     Performance_Mean  |-> NpRound(Mean(group, "Performance"), 100),
     Quality_Mean      |-> NpRound(Mean(group, "Quality"), 100),
     Total_Units       |->
         NpRound(SumFrom(group, "Total_Units_Produced", 1), 100),
     Defective_Units   |-> NpRound(SumFrom(group, "Defective_Units", 1), 100),
     Avg_Downtime      |-> NpRound(Mean(group, "Downtime_Minutes"), 100)]

\* oee_analysis.py lines 182-196
MachineStats(df) ==
    LET keys == SortedKeys(KeysOf(df, "Machine_Name"), NameRank)
    IN  [j \in 1..Len(keys) |->
            MachineStatsRow(Group(df, "Machine_Name", keys[j]), keys[j])]

\* oee_analysis.py lines 202-209 and 219-226: the six aggregates of one
\* group of shift_wise_analysis and of monthly_trend_analysis
StatsOf(group) ==
    [OEE                  |-> NpRound(Mean(group, "OEE"), 100),
     Availability         |-> NpRound(Mean(group, "Availability"), 100),
     Performance          |-> NpRound(Mean(group, "Performance"), 100),
     Quality              |-> NpRound(Mean(group, "Quality"), 100),
     Total_Units_Produced |->
         NpRound(SumFrom(group, "Total_Units_Produced", 1), 100),
     Downtime_Minutes     |-> NpRound(Mean(group, "Downtime_Minutes"), 100)]

\* oee_analysis.py lines 202-211
ShiftStats(df) ==
    LET keys == SortedKeys(KeysOf(df, "Shift"), NameRank)
    IN  [j \in 1..Len(keys) |->
            SetCell(StatsOf(Group(df, "Shift", keys[j])), "Shift", keys[j])]

\* pd.to_datetime(date).to_period('M'): the ordinal of the month, counted
\* from January 1970; periods compare by their ordinal
YearMonthOf(date) == (date[1] - 1970) * 12 + (date[2] - 1)

\* oee_analysis.py line 217: df['YearMonth'] = ...
WithYearMonth(df) ==
    [i \in 1..Len(df) |-> SetCell(df[i], "YearMonth", YearMonthOf(df[i].Date))]

\* oee_analysis.py lines 219-228, on the table that has the YearMonth column
MonthlyStats(df) ==
    LET months == KeysOf(df, "YearMonth")
        keys   == SortedKeys(months, [k \in months |-> k])
    IN  [j \in 1..Len(keys) |->
            SetCell(StatsOf(Group(df, "YearMonth", keys[j])),
                    "YearMonth", keys[j])]

\* the state of the pipeline that the aggregations and analyses leave alone
pipelineVars ==
    <<raw_data, oee_results, production_data, oee_data, current_data,
      baseline_oee, improved_data, fault, attempts, calls>>

\* machine_analysis = analyzer.machine_wise_analysis(oee_data)
MachineWise ==
    /\ fault = "none"
    /\ oee_data # None
    /\ machine_analysis = None
    /\ heap' = Append(heap, MachineStats(heap[oee_data]))
    /\ machine_analysis' = Len(heap) + 1
    /\ UNCHANGED <<pipelineVars, shift_analysis, monthly_analysis, lossVars>>

\* shift_analysis = analyzer.shift_wise_analysis(oee_data)
ShiftWise ==
    /\ fault = "none"
    /\ oee_data # None
    /\ shift_analysis = None
    /\ heap' = Append(heap, ShiftStats(heap[oee_data]))
    /\ shift_analysis' = Len(heap) + 1
    /\ UNCHANGED <<pipelineVars, machine_analysis, monthly_analysis,
                   lossVars>>

\* monthly_analysis = analyzer.monthly_trend_analysis(oee_data): the
\* YearMonth column is assigned on the DataFrame passed in
MonthlyTrend ==
    /\ fault = "none"
    /\ oee_data # None
    /\ monthly_analysis = None
    /\ LET df == WithYearMonth(heap[oee_data])
       IN  heap' = Append([heap EXCEPT ![oee_data] = df], MonthlyStats(df))
    /\ monthly_analysis' = Len(heap) + 1
    /\ UNCHANGED <<pipelineVars, machine_analysis, shift_analysis, lossVars>>

\* The batches handed to the aggregations: per machine one shift and one
\* date, and two production levels.  Level 1 loses a tenth of the planned
\* time to cleaning, makes half of the ideal output and a tenth of it
\* defective; level 2 runs the whole shift at the ideal rate.
AggShift(machine) ==
    CASE machine = "Mixer"    -> "Night"
      [] machine = "Filler"   -> "Morning"
      [] machine = "Packer"   -> "Afternoon"
      [] machine = "Conveyor" -> "Morning"

AggDate(machine) ==
    CASE machine = "Mixer"    -> <<2025, 12, 5>>
      [] machine = "Filler"   -> <<2025, 7, 1>>
      [] machine = "Packer"   -> <<2025, 8, 10>>
      [] machine = "Conveyor" -> <<2025, 7, 15>>

AggRecord(machine, level) ==
    LET planned == PlannedMinutes(AggShift(machine))
        full    == Trunc(RDiv(RMul(planned, R(60)), IdealCycle(machine)))
        units   == IF level = 1 THEN RMul(full, Norm(1, 2)) ELSE full
        defects == IF level = 1 THEN RMul(units, Norm(1, 10)) ELSE R(0)
    IN  [Date                    |-> AggDate(machine),
         Shift                   |-> AggShift(machine),
         Machine_Name            |-> machine,
         Planned_Production_Time |-> planned,
         Downtime_Minutes        |->
             IF level = 1 THEN RMul(planned, Norm(1, 10)) ELSE R(0),
         Downtime_Reason         |->
             IF level = 1 THEN "Cleaning" ELSE "None",
         Ideal_Cycle_Time        |-> IdealCycle(machine),
         Actual_Cycle_Time       |-> ActualRange(machine)[1],
         Total_Units_Produced    |-> units,
         Defective_Units         |-> defects,
         Good_Units              |-> RSub(units, defects)]

AggRecords ==
    {AggRecord(machines[m], level) : m \in 1..Len(machines), level \in 1..2}

InitAgg ==
    /\ \E n \in 0..MaxRows :
         \E batch \in [1..n -> AggRecords] : heap = <<batch>>
    /\ raw_data = None
    /\ oee_results = None
    /\ production_data = 1
    /\ oee_data = None
    /\ current_data = None
    /\ baseline_oee = NaN
    /\ improved_data = None
    /\ fault = "none"
    /\ NothingAnalysed

NextAgg == Calculate \/ MachineWise \/ ShiftWise \/ MonthlyTrend

SpecAgg == InitAgg /\ [][NextAgg]_vars

\* ------------------------------------------------------------------------
\* DetailedOEEAnalysis (src/detailed_analysis.py).  The 'std' column of
\* speed_loss_analysis (Std_Speed_Loss) is left out like OEE_Std.
\* ------------------------------------------------------------------------
\* detailed_analyzer = DetailedOEEAnalysis(analyzer): both attributes are
\* references to the analyzer's DataFrames; data is None when the analyzer
\* has not calculated yet
NewDetailed ==
    /\ fault = "none"
    /\ raw_data # None
    /\ detailed_raw = None
    /\ detailed_data' = oee_results
    /\ detailed_raw' = raw_data
    /\ UNCHANGED <<heap, pipelineVars, aggVars, downtime_summary,
                   machine_downtime, speed_loss_summary, worst_speed,
                   quality_summary, shift_quality, sort_memo, repeats>>

\* DowntimeData without the filter of line 32
DowntimeDataAll(raw) == raw

\* line 32: the records with downtime
DowntimeData(raw) ==
    SelectSeq(raw, LAMBDA row : RLt(R(0), row.Downtime_Minutes))

\* 'count': the number of cells of the group (none of them is missing)
CountOf(group) == R(Len(group))

\* lines 35-40: the row of one downtime reason
ParetoRow(group, k) ==
    [Downtime_Reason    |-> k,
     Total_Downtime_Min |->
         NpRound(SumFrom(group, "Downtime_Minutes", 1), 100),
     Avg_Downtime_Min   |-> NpRound(Mean(group, "Downtime_Minutes"), 100),
     Frequency          |-> NpRound(CountOf(group), 100),
     Records            |-> NpRound(CountOf(group), 100)]

\* lines 35-40
ReasonStats(downtime_data) ==
    LET keys == SortedKeys(KeysOf(downtime_data, "Downtime_Reason"),
                           NameRank)
    IN  [j \in 1..Len(keys) |->
            ParetoRow(Group(downtime_data, "Downtime_Reason", keys[j]),
                      keys[j])]

\* DescendingOrders with the smallest total first
AscendingOrders(table, c) ==
    {p \in Permutations(1..Len(table)) :
        \A j \in 1..(Len(table) - 1) : RLe(table[p[j]][c], table[p[j + 1]][c])}

\* line 41, sort_values(c, ascending=False): the row orders in which column
\* c does not increase.  The default sort kind is not stable, so rows with
\* equal totals come in an order that depends on the numpy build.
DescendingOrders(table, c) ==
    {p \in Permutations(1..Len(table)) :
        \A j \in 1..(Len(table) - 1) : RLe(table[p[j + 1]][c], table[p[j]][c])}

\* CumulativePct from the row's own total, without the running sum
SharePct(sorted, j) ==
    NpRound(RMul(RDiv(sorted[j].Total_Downtime_Min,
                      SumFrom(sorted, "Total_Downtime_Min", 1)), R(100)), 10)

\* lines 44-45: cumsum() / sum() * 100, rounded to one decimal
CumulativePct(sorted, j) ==
    NpRound(RMul(RDiv(SumFrom(SubSeq(sorted, 1, j), "Total_Downtime_Min", 1),
                      SumFrom(sorted, "Total_Downtime_Min", 1)), R(100)), 10)

\* lines 41-45: the summary in the row order p, with its cumulative column
ParetoTable(summary, p) ==
    LET sorted == [j \in 1..Len(summary) |-> summary[p[j]]]
    IN  [j \in 1..Len(sorted) |->
            SetCell(sorted[j], "Cumulative_Pct", CumulativePct(sorted, j))]

\* lines 52-54: groupby(['Machine_Name', 'Downtime_Reason']) sum
MachineDowntime(downtime_data) ==
    LET pairs == {<<downtime_data[i].Machine_Name,
                    downtime_data[i].Downtime_Reason>> :
                      i \in 1..Len(downtime_data)}
        rank  == [k \in pairs |->
                     NameRank[k[1]] * (Len(NameOrder) + 1) + NameRank[k[2]]]
        keys  == SortedKeys(pairs, rank)
    IN  [j \in 1..Len(keys) |->
            [Machine_Name     |-> keys[j][1],
             Downtime_Reason  |-> keys[j][2],
             Downtime_Minutes |->
                 NpRound(SumFrom(
                     SelectSeq(downtime_data,
                               LAMBDA row :
                                   /\ row.Machine_Name = keys[j][1]
                                   /\ row.Downtime_Reason = keys[j][2]),
                     "Downtime_Minutes", 1), 100)]]

\* lines 24-58, one call.  The sort is a deterministic function of the
\* table it is given: the order it gives to equal totals is not known
\* before the first call, and is the same whenever the same table is
\* sorted again.
ParetoCall ==
    /\ LET downtime_data == DowntimeData(heap[detailed_raw])
           summary       == ReasonStats(downtime_data)
       IN  \E p \in DescendingOrders(summary, "Total_Downtime_Min") :
               /\ (sort_memo # <<>> /\ sort_memo[1] = summary)
                      => p = sort_memo[2]
               /\ sort_memo' = <<summary, p>>
               /\ heap' = heap \o <<ParetoTable(summary, p),
                                    MachineDowntime(downtime_data)>>
    /\ downtime_summary' = Len(heap) + 1
    /\ machine_downtime' = Len(heap) + 2
    /\ UNCHANGED <<pipelineVars, aggVars, detailed_data, detailed_raw,
                   speed_loss_summary, worst_speed, quality_summary,
                   shift_quality>>

\* downtime_summary, machine_downtime =
\*     detailed_analyzer.downtime_pareto_analysis()
Pareto ==
    /\ fault = "none"
    /\ detailed_raw # None
    /\ downtime_summary = None
    /\ ParetoCall
    /\ UNCHANGED repeats

\* downtime_pareto_analysis() called a second time
ParetoAgain ==
    /\ fault = "none"
    /\ downtime_summary # None
    /\ "pareto" \notin repeats
    /\ ParetoCall
    /\ repeats' = repeats \cup {"pareto"}

\* lines 68-69, one cell of the Speed_Loss_Percent column
SpeedLossOf(row) ==
    NpRound(RMul(RDiv(RSub(row.Actual_Cycle_Time, row.Ideal_Cycle_Time),
                      row.Ideal_Cycle_Time), R(100)), 100)

\* WithSpeedLoss that keeps the difference of line 68 in Actual_Cycle_Time
WithSpeedLossInPlace(data) ==
    [i \in 1..Len(data) |->
        SetCell(SetCell(data[i], "Speed_Loss_Percent", SpeedLossOf(data[i])),
                "Actual_Cycle_Time",
                RSub(data[i].Actual_Cycle_Time, data[i].Ideal_Cycle_Time))]

\* lines 68-69: the column is assigned on self.data
WithSpeedLoss(data) ==
    [i \in 1..Len(data) |->
        SetCell(data[i], "Speed_Loss_Percent", SpeedLossOf(data[i]))]

\* lines 72-80: the row of one machine
SpeedSummaryRow(group, k) ==
    [Machine_Name       |-> k,
     Avg_Speed_Loss_Pct |-> NpRound(Mean(group, "Speed_Loss_Percent"), 100),
     Max_Speed_Loss     |-> NpRound(MaxOf(group, "Speed_Loss_Percent"), 100),
     Avg_Ideal_Cycle    |-> NpRound(Mean(group, "Ideal_Cycle_Time"), 100),
     Avg_Actual_Cycle   |-> NpRound(Mean(group, "Actual_Cycle_Time"), 100),
     Total_Units        |->
         NpRound(SumFrom(group, "Total_Units_Produced", 1), 100)]

\* lines 72-80
SpeedSummary(data) ==
    LET keys == SortedKeys(KeysOf(data, "Machine_Name"), NameRank)
    IN  [j \in 1..Len(keys) |->
            SpeedSummaryRow(Group(data, "Machine_Name", keys[j]), keys[j])]

\* the k of nlargest(10, ...)
TopK == 10

\* NLargest with keep='last': of equal cells the later row goes first
RECURSIVE NLargestKeepLast(_, _, _, _)
NLargestKeepLast(data, c, k, left) ==
    IF k = 0 \/ left = {} THEN <<>>
    ELSE LET best == CHOOSE i \in left :
                        \A j \in left :
                            \/ RLt(data[j][c], data[i][c])
                            \/ data[j][c] = data[i][c] /\ j <= i
         IN  <<best>> \o NLargestKeepLast(data, c, k - 1, left \ {best})

\* DataFrame.nlargest(k, c), keep='first': the positions of the k rows with
\* the largest cell in column c among the positions `left`, largest first,
\* of equal cells the earlier row first; a NaN cell is never chosen
RECURSIVE NLargest(_, _, _, _)
NLargest(data, c, k, left) ==
    IF k = 0 \/ left = {} THEN <<>>
    ELSE LET best == CHOOSE i \in left :
                        \A j \in left :
                            \/ RLt(data[j][c], data[i][c])
                            \/ data[j][c] = data[i][c] /\ i <= j
         IN  <<best>> \o NLargest(data, c, k - 1, left \ {best})

\* lines 87-88: the four columns of the chosen rows; a chosen row keeps the
\* label it has in self.data (its position, counted from 0)
WorstSpeed(data) ==
    LET rows == NLargest(data, "Speed_Loss_Percent", TopK,
                         {i \in 1..Len(data) :
                             ~IsNaN(data[i].Speed_Loss_Percent)})
    IN  [j \in 1..Len(rows) |->
            [index              |-> rows[j] - 1,
             Date               |-> data[rows[j]].Date,
             Machine_Name       |-> data[rows[j]].Machine_Name,
             Speed_Loss_Percent |-> data[rows[j]].Speed_Loss_Percent,
             Shift              |-> data[rows[j]].Shift]]

\* the state that neither speed_loss_analysis nor quality_loss_analysis
\* assigns
analyzerVars ==
    <<raw_data, oee_results, production_data, oee_data, current_data,
      baseline_oee, improved_data, attempts, calls, aggVars, detailed_data,
      detailed_raw, downtime_summary, machine_downtime, sort_memo>>

\* lines 60-92, one call; on an analyzer that had not calculated,
\* self.data is None and line 68 raises TypeError
SpeedLossCall ==
    /\ IF detailed_data = None
       THEN /\ fault' = "TypeError"
            /\ UNCHANGED <<heap, speed_loss_summary, worst_speed>>
       ELSE LET data == WithSpeedLoss(heap[detailed_data])
            IN  /\ heap' = [heap EXCEPT ![detailed_data] = data]
                               \o <<SpeedSummary(data), WorstSpeed(data)>>
                /\ speed_loss_summary' = Len(heap) + 1
                /\ worst_speed' = Len(heap) + 2
                /\ fault' = fault
    /\ UNCHANGED <<analyzerVars, quality_summary, shift_quality>>

\* speed_loss_summary, worst_speed = detailed_analyzer.speed_loss_analysis()
SpeedLoss ==
    /\ fault = "none"
    /\ detailed_raw # None
    /\ worst_speed = None
    /\ SpeedLossCall
    /\ UNCHANGED repeats

\* speed_loss_analysis() called a second time
SpeedLossAgain ==
    /\ fault = "none"
    /\ worst_speed # None
    /\ "speed" \notin repeats
    /\ SpeedLossCall
    /\ repeats' = repeats \cup {"speed"}

\* lines 103-104, one cell of the Defect_Rate_Percent column
DefectRateOf(row) ==
    NpRound(RMul(RDiv(row.Defective_Units, row.Total_Units_Produced),
                 R(100)), 1000)

\* lines 103-104: the column is assigned on self.data
WithDefectRate(data) ==
    [i \in 1..Len(data) |->
        SetCell(data[i], "Defect_Rate_Percent", DefectRateOf(data[i]))]

\* lines 107-115: the row of one machine (Std_Defect_Rate left out)
QualitySummaryRow(group, k) ==
    [Machine_Name    |-> k,
     Avg_Defect_Rate |-> NpRound(Mean(group, "Defect_Rate_Percent"), 1000),
     Max_Defect_Rate |-> NpRound(MaxOf(group, "Defect_Rate_Percent"), 1000),
     Avg_Quality     |-> NpRound(Mean(group, "Quality"), 1000),
     Min_Quality     |-> NpRound(MinOf(group, "Quality"), 1000),
     Total_Defects   |-> NpRound(SumFrom(group, "Defective_Units", 1), 1000),
     Total_Units     |->
         NpRound(SumFrom(group, "Total_Units_Produced", 1), 1000)]

\* lines 107-115
QualitySummary(data) ==
    LET keys == SortedKeys(KeysOf(data, "Machine_Name"), NameRank)
    IN  [j \in 1..Len(keys) |->
            QualitySummaryRow(Group(data, "Machine_Name", keys[j]), keys[j])]

\* lines 121-124
ShiftQuality(data) ==
    LET keys == SortedKeys(KeysOf(data, "Shift"), NameRank)
    IN  [j \in 1..Len(keys) |->
            LET group == Group(data, "Shift", keys[j])
            IN  [Shift               |-> keys[j],
                 Defect_Rate_Percent |->
                     NpRound(Mean(group, "Defect_Rate_Percent"), 100),
                 Quality             |->
                     NpRound(Mean(group, "Quality"), 100)]]

\* lines 94-129, one call; self.data is None on an analyzer that had not
\* calculated and line 103 raises TypeError
QualityLossCall ==
    /\ IF detailed_data = None
       THEN /\ fault' = "TypeError"
            /\ UNCHANGED <<heap, quality_summary, shift_quality>>
       ELSE LET data == WithDefectRate(heap[detailed_data])
            IN  /\ heap' = [heap EXCEPT ![detailed_data] = data]
                               \o <<QualitySummary(data), ShiftQuality(data)>>
                /\ quality_summary' = Len(heap) + 1
                /\ shift_quality' = Len(heap) + 2
                /\ fault' = fault
    /\ UNCHANGED <<analyzerVars, speed_loss_summary, worst_speed>>

\* quality_summary, shift_quality =
\*     detailed_analyzer.quality_loss_analysis()
QualityLoss ==
    /\ fault = "none"
    /\ detailed_raw # None
    /\ quality_summary = None
    /\ QualityLossCall
    /\ UNCHANGED repeats

\* quality_loss_analysis() called a second time
QualityLossAgain ==
    /\ fault = "none"
    /\ quality_summary # None
    /\ "quality" \notin repeats
    /\ QualityLossCall
    /\ repeats' = repeats \cup {"quality"}

\* A record as the simulator builds it from a shift, a machine, a stored
\* downtime with its reason and a stored cycle time
BatchRecord(shift, machine, downtime, reason, actual_cycle) ==
    LET planned == PlannedMinutes(shift)
        units   == TotalUnitsOf(planned, downtime, actual_cycle)
        defects == DefectiveUnitsOf(units, DefectRange(machine)[2])
    IN  [Date                    |-> <<2025, 7, 1>>,
         Shift                   |-> shift,
         Machine_Name            |-> machine,
         Planned_Production_Time |-> planned,
         Downtime_Minutes        |-> downtime,
         Downtime_Reason         |-> reason,
         Ideal_Cycle_Time        |-> IdealCycle(machine),
         Actual_Cycle_Time       |-> actual_cycle,
         Total_Units_Produced    |-> units,
         Defective_Units         |-> defects,
         Good_Units              |-> RSub(units, defects)]

\* The batches handed to the downtime Pareto: totals 100 / 50 / 50 over
\* three reasons, a reason met on two machines, a fourth reason whose
\* share is not a whole tenth of a percent, and a record without downtime
DowntimeRecords ==
    {BatchRecord("Morning", "Mixer", R(100), "Changeover", R(50)),
     BatchRecord("Morning", "Filler", R(50), "Cleaning", R(3)),
     BatchRecord("Night", "Filler", R(50), "Breakdown", R(3)),
     BatchRecord("Night", "Packer", R(100), "Breakdown", R(4)),
     BatchRecord("Afternoon", "Packer", R(25), "Minor Stoppage", R(4)),
     BatchRecord("Afternoon", "Conveyor", R(0), "None", R(2))}

\* the state after analyzer.raw_data and production_data were bound to
\* one batch
InitBatch(batch) ==
    /\ heap = <<batch>>
    /\ raw_data = 1
    /\ oee_results = None
    /\ production_data = 1
    /\ oee_data = None
    /\ current_data = None
    /\ baseline_oee = NaN
    /\ improved_data = None
    /\ fault = "none"
    /\ NothingAnalysed

InitLoss ==
    \E n \in 0..MaxDowntimeRows :
        \E batch \in [1..n -> DowntimeRecords] : InitBatch(batch)

NextLoss == Calculate \/ NewDetailed \/ Pareto

SpecLoss == InitLoss /\ [][NextLoss]_vars

\* The batches handed to the speed-loss analysis: a Mixer record whose
\* speed loss 19.4222... is rounded to 19.42 and a Filler record whose
\* speed loss is 30.8
SpeedRecords ==
    {BatchRecord("Morning", "Mixer", R(0), "None", Norm(5374, 100)),
     BatchRecord("Morning", "Filler", R(0), "None", Norm(327, 100))}

InitSpeed ==
    \E n \in 0..MaxSpeedRows :
        \E batch \in [1..n -> SpeedRecords] : InitBatch(batch)

NextSpeed == Calculate \/ NewDetailed \/ SpeedLoss

SpecSpeed == InitSpeed /\ [][NextSpeed]_vars

\* The batches handed to the three loss analyses together: two reasons
\* with equal totals, a rounded speed loss and a record without downtime
OrderRecords ==
    {BatchRecord("Morning", "Mixer", R(100), "Changeover", Norm(5374, 100)),
     BatchRecord("Morning", "Filler", R(50), "Cleaning", R(3)),
     BatchRecord("Night", "Filler", R(50), "Breakdown", Norm(327, 100)),
     BatchRecord("Afternoon", "Conveyor", R(0), "None", R(2))}

InitOrder ==
    \E n \in 1..MaxBatch :
        \E batch \in [1..n -> OrderRecords] : InitBatch(batch)

NextOrder ==
    \/ Calculate
    \/ NewDetailed
    \/ Pareto
    \/ SpeedLoss
    \/ QualityLoss
    \/ ParetoAgain
    \/ SpeedLossAgain
    \/ QualityLossAgain

SpecOrder == InitOrder /\ [][NextOrder]_vars

\* The draws of a second generate_production_data(1) on the same analyzer:
\* a Morning attempt with the downtime at its cap, kept or skipped
RegenDraws ==
    {dr \in AttemptDraws :
        dr.shift = 1 /\ dr.normal = Norm(25000, 100) /\ dr.pick = 1}

\* production_data = analyzer.generate_production_data(1), called on an
\* analyzer that holds a batch: line 134 rebinds self.raw_data and leaves
\* self.oee_results as it is
Regenerate ==
    /\ fault = "none"
    /\ raw_data # None
    /\ "generate" \notin repeats
    /\ \E draws \in [1..1 -> RegenDraws] : GenerateWith(draws)
    /\ repeats' = repeats \cup {"generate"}
    /\ UNCHANGED <<oee_results, oee_data, current_data, baseline_oee,
                   improved_data, calls, aggVars, detailed_data,
                   detailed_raw, downtime_summary, machine_downtime,
                   speed_loss_summary, worst_speed, quality_summary,
                   shift_quality, sort_memo>>

NextRegen == Calculate \/ Regenerate \/ NewDetailed

SpecRegen == InitOrder /\ [][NextRegen]_vars

\* The batches that name a machine, a shift or a downtime reason from
\* outside the fixed sets of OEEAnalyzer.__init__
ForeignRecords ==
    LET base == BatchRecord("Morning", "Mixer", R(100), "Changeover", R(50))
    IN  {base,
         SetCell(base, "Machine_Name", "Oven"),
         SetCell(base, "Shift", "Evening"),
         SetCell(base, "Downtime_Reason", "Sabotage")}

InitForeign ==
    \E n \in 1..MaxBatch :
        \E batch \in [1..n -> ForeignRecords] : InitBatch(batch)

NextForeign ==
    Calculate \/ MachineWise \/ ShiftWise \/ NewDetailed \/ Pareto

SpecForeign == InitForeign /\ [][NextForeign]_vars

\* ------------------------------------------------------------------------
\* Properties
\* ------------------------------------------------------------------------
Rows(t) == 1..Len(heap[t])

Cap100(x) == IF RLt(R(100), x) THEN R(100) ELSE x

\* the formulas of the data model, on the record's own fields
FormulaAvailability(row) ==
    RDiv(RMul(RSub(row.Planned_Production_Time, row.Downtime_Minutes),
              R(100)),
         row.Planned_Production_Time)

FormulaPerformance(row) ==
    RDiv(RMul(RMul(row.Ideal_Cycle_Time, row.Total_Units_Produced), R(100)),
         RMul(RSub(row.Planned_Production_Time, row.Downtime_Minutes),
              R(60)))

FormulaQuality(row) ==
    RDiv(RMul(row.Good_Units, R(100)), row.Total_Units_Produced)

FormulaOEE(row) ==
    RDiv(RMul(RMul(FormulaAvailability(row), FormulaPerformance(row)),
              FormulaQuality(row)),
         R(10000))

HasMetrics(row, a, p, q, o) ==
    /\ row.Availability = a
    /\ row.Performance = p
    /\ row.Quality = q
    /\ row.OEE = o

\* record A: planned 480, downtime 0, ideal 2.5, units 11520, defects 0
IsRecordA(row) ==
    /\ row.Planned_Production_Time = R(480)
    /\ row.Downtime_Minutes = R(0)
    /\ row.Ideal_Cycle_Time = Norm(25, 10)
    /\ row.Total_Units_Produced = R(11520)
    /\ row.Defective_Units = R(0)

\* record B: planned 480, downtime 240, ideal 2.5, units 2880, defects 288
IsRecordB(row) ==
    /\ row.Planned_Production_Time = R(480)
    /\ row.Downtime_Minutes = R(240)
    /\ row.Ideal_Cycle_Time = Norm(25, 10)
    /\ row.Total_Units_Produced = R(2880)
    /\ row.Defective_Units = R(288)

ScenarioAB(row) ==
    /\ IsRecordA(row) => HasMetrics(row, R(100), R(100), R(100), R(100))
    /\ IsRecordB(row) => HasMetrics(row, R(50), R(50), R(90), Norm(225, 10))

\* the records claim C1 speaks of
Productive(row) ==
    /\ RLt(R(0), row.Total_Units_Produced)
    /\ RLt(row.Downtime_Minutes, row.Planned_Production_Time)

\* C1 as stated: every record with total units > 0 and downtime < planned
\* stores availability, performance, quality and oee equal to the four
\* formulas; record A stores 100/100/100/100 and record B 50/50/90/22.5.
C1_Uncapped ==
    oee_data # None =>
        \A i \in Rows(oee_data) :
            LET row == heap[oee_data][i]
            IN  Productive(row) =>
                    /\ HasMetrics(row, FormulaAvailability(row),
                                  FormulaPerformance(row),
                                  FormulaQuality(row), FormulaOEE(row))
                    /\ ScenarioAB(row)

\* C1 amended: every record with total units > 0 and downtime < planned
\* stores each of the four formulas capped at 100 (the oee formula being
\* the product of the three uncapped formulas / 10000); record A stores
\* 100/100/100/100 and record B 50/50/90/22.5.
C1_CappedFormulas ==
    oee_data # None =>
        \A i \in Rows(oee_data) :
            LET row == heap[oee_data][i]
            IN  Productive(row) =>
                    /\ HasMetrics(row, Cap100(FormulaAvailability(row)),
                                  Cap100(FormulaPerformance(row)),
                                  Cap100(FormulaQuality(row)),
                                  Cap100(FormulaOEE(row)))
                    /\ ScenarioAB(row)

\* C1 witness: the batch <<A, B>> has been through calculate_oee_metrics
C1_ScenarioCalculated ==
    /\ oee_data # None
    /\ Len(heap[oee_data]) = 2
    /\ IsRecordA(heap[oee_data][1])
    /\ IsRecordB(heap[oee_data][2])
    /\ "OEE" \in Columns(heap[oee_data][2])

\* C2 as stated: every metric of every record returned by
\* calculate_oee_metrics on a batch within the data-model constraints is a
\* defined number in [0, 100].
C2_MetricsInRange ==
    oee_data # None =>
        \A i \in Rows(oee_data) :
            \A c \in MetricCols :
                LET v == heap[oee_data][i][c]
                IN  IsFinite(v) /\ RLe(R(0), v) /\ RLe(v, R(100))

\* C3 as stated: a record with total_units_produced = 0 comes out of
\* calculate_oee_metrics without a fault and with performance = quality = 0.
C3_ZeroUnitsSentinel ==
    oee_data # None =>
        /\ fault = "none"
        /\ \A i \in Rows(oee_data) :
              LET row == heap[oee_data][i]
              IN  row.Total_Units_Produced = R(0) =>
                      row.Performance = R(0) /\ row.Quality = R(0)

\* C4 as stated: the stored oee of every record returned by
\* calculate_oee_metrics is the product of its stored availability,
\* performance and quality / 10000 (an undefined oee counts as equal to an
\* undefined product).
C4_OEEFromStoredComponents ==
    oee_data # None =>
        \A i \in Rows(oee_data) :
            LET row == heap[oee_data][i]
            IN  row.OEE =
                    RDiv(RMul(RMul(row.Availability, row.Performance),
                              row.Quality), R(10000))

\* the step in which calculate_oee_metrics returns
CalculateStep == oee_data = None /\ oee_data' # None

\* the step in which simulate_improvement_impact returns
SimulateStep == improved_data = None /\ improved_data' # None

\* C5 as stated: calculate_oee_metrics leaves the table it is given, and
\* the analyzer's raw_data, as they were: the same columns (no Availability,
\* Performance, Quality or OEE) and the same values.
C5_InputUntouched ==
    [][CalculateStep =>
          \A t \in {production_data, raw_data} \ {None} :
              /\ heap'[t] = heap[t]
              /\ \A i \in 1..Len(heap'[t]) :
                    Columns(heap'[t][i]) = ProductionCols]_vars

\* C6: simulate_improvement_impact leaves every record of the baseline (the
\* plan's current_data and the analyzer's oee_results) unchanged and returns
\* a table that is a new object, distinct from every table that existed.
C6_BaselineUntouched ==
    [][SimulateStep =>
          /\ heap'[current_data] = heap[current_data]
          /\ heap'[oee_results] = heap[oee_results]
          /\ improved_data' \notin 1..Len(heap)
          /\ \A t \in 1..Len(heap) : heap'[t] = heap[t]]_vars

\* C6 witness: the simulation has returned a table that differs from the
\* baseline it was computed from
C6_SimulationDiffers ==
    /\ improved_data # None
    /\ Len(heap[improved_data]) > 0
    /\ heap[improved_data] # heap[current_data]

UnitsAddUp(row) ==
    RAdd(row.Good_Units, row.Defective_Units) = row.Total_Units_Produced

\* C7: good_units + defective_units = total_units_produced in every record
\* emitted by generate_production_data and in every record of the improved
\* table of simulate_improvement_impact.
C7_UnitsAddUp ==
    /\ production_data # None =>
          \A i \in Rows(production_data) :
              UnitsAddUp(heap[production_data][i])
    /\ improved_data # None =>
          \A i \in Rows(improved_data) : UnitsAddUp(heap[improved_data][i])

\* C7 witness: an improved record whose halved defects are not a whole
\* number
C7_HalfDefect ==
    /\ improved_data # None
    /\ \E i \in Rows(improved_data) :
          /\ heap[improved_data][i].Defective_Units.d = 2
          /\ heap[current_data][i].Defective_Units.n > 1

\* C8: the stored downtime of every emitted record lies in
\* [0, 0.5 * planned_production_time] (240 for Morning and Afternoon, 210
\* for Night).
C8_DowntimeBounded ==
    production_data # None =>
        \A i \in Rows(production_data) :
            LET row == heap[production_data][i]
                cap == IF row.Shift = "Night" THEN R(210) ELSE R(240)
            IN  /\ RLe(R(0), row.Downtime_Minutes)
                /\ RLe(row.Downtime_Minutes, cap)
                /\ RLe(row.Downtime_Minutes,
                       RMul(Norm(5, 10), row.Planned_Production_Time))

\* C8 witness: a Night record whose draw was cut to the cap of 210
C8_CapReached ==
    /\ production_data # None
    /\ \E i \in Rows(production_data) :
          /\ heap[production_data][i].Shift = "Night"
          /\ heap[production_data][i].Downtime_Minutes = R(210)

\* C9 as stated: the stored downtime_reason of an emitted record is 'None'
\* exactly when its stored downtime_minutes is 0.
C9_NoneIffZero ==
    production_data # None =>
        \A i \in Rows(production_data) :
            LET row == heap[production_data][i]
            IN  (row.Downtime_Reason = "None") <=>
                    (row.Downtime_Minutes = R(0))

\* C10 as stated: the stored total_units_produced of an emitted record is
\* floor((planned - downtime) * 60 / actual_cycle_time) on the stored
\* downtime_minutes and actual_cycle_time of the record.
C10_UnitsFromStoredFields ==
    production_data # None =>
        \A i \in Rows(production_data) :
            LET row == heap[production_data][i]
                q   == RDiv(RMul(RSub(row.Planned_Production_Time,
                                      row.Downtime_Minutes), R(60)),
                            row.Actual_Cycle_Time)
            IN  row.Total_Units_Produced = R(q.n \div q.d)

\* C11: every record emitted by generate_production_data, whatever its
\* machine and defect-rate draw, has 0 <= defective_units <=
\* total_units_produced and good_units >= 0.
C11_DefectsWithinUnits ==
    production_data # None =>
        \A i \in Rows(production_data) :
            LET row == heap[production_data][i]
            IN  /\ RLe(R(0), row.Defective_Units)
                /\ RLe(row.Defective_Units, row.Total_Units_Produced)
                /\ RLe(R(0), row.Good_Units)

\* C11 witness: an emitted Filler record (defect rate up to 3.5 percent)
\* with defective units
C11_FillerDefects ==
    /\ production_data # None
    /\ \E i \in Rows(production_data) :
          /\ heap[production_data][i].Machine_Name = "Filler"
          /\ RLt(R(0), heap[production_data][i].Defective_Units)

\* the step in which the second call of calculate_oee_metrics returns
RecalculateStep == calls = 1 /\ calls' = 2

\* C12: the second call of calculate_oee_metrics on the same simulator
\* output gives every record the availability, performance, quality and
\* oee of the first call, in the table returned and in oee_results.
C12_SecondCallSame ==
    [][RecalculateStep =>
          /\ Len(heap'[oee_data']) = Len(heap[oee_data])
          /\ Len(heap'[oee_results']) = Len(heap[oee_results])
          /\ \A i \in 1..Len(heap[oee_data]) :
                \A c \in MetricCols :
                    /\ heap'[oee_data'][i][c] = heap[oee_data][i][c]
                    /\ heap'[oee_results'][i][c] = heap[oee_results][i][c]]_vars

\* C12 witness: two calls have been made on a record with downtime, and
\* the second has left a new oee_results
C12_CalledTwice ==
    /\ calls = 2
    /\ oee_results # production_data
    /\ \E i \in Rows(oee_data) :
          /\ RLt(R(0), heap[oee_data][i].Downtime_Minutes)
          /\ RLt(R(0), heap[oee_data][i].OEE)

C17_SameRecordsSameOrder ==
    [][CalculateStep =>
          /\ Len(heap'[oee_data']) = Len(heap[production_data])
          /\ \A i \in 1..Len(heap[production_data]) :
                \A c \in ProductionCols :
                    heap'[oee_data'][i][c] = heap[production_data][i][c]]_vars

\* C17 witness: a batch of two different records, the first without units,
\* has been through calculate_oee_metrics
C17_TwoDifferentRecords ==
    /\ oee_data # None
    /\ Len(heap[oee_data]) = 2
    /\ heap[oee_data][1].Total_Units_Produced = R(0)
    /\ heap[oee_data][2].Total_Units_Produced # R(0)

\* C13: the Total_Units of the rows of machine_wise_analysis add up to the
\* total_units_produced of all records of the batch (every record is
\* counted in exactly one machine group).
C13_MachinePartition ==
    machine_analysis # None =>
        /\ SumFrom(heap[machine_analysis], "Total_Units", 1) =
              SumFrom(heap[oee_data], "Total_Units_Produced", 1)
        /\ \A i \in Rows(oee_data) :
              Cardinality({j \in Rows(machine_analysis) :
                  heap[machine_analysis][j].Machine_Name =
                      heap[oee_data][i].Machine_Name}) = 1

\* C13 witness: three records, two of them of one machine, aggregated into
\* two machine rows
C13_TwoGroupsOfThree ==
    /\ machine_analysis # None
    /\ Len(heap[oee_data]) = 3
    /\ Len(heap[machine_analysis]) = 2
    /\ heap[oee_data][1].Machine_Name # heap[oee_data][2].Machine_Name
    /\ heap[oee_data][1].Machine_Name = heap[oee_data][3].Machine_Name

\* the keys of the rows of an aggregation result, in row order
KeyColumn(t, c) == [j \in 1..Len(heap[t]) |-> heap[t][j][c]]

\* the members of `order` that occur in `keys`, in the order of `order`
Present(order, keys) ==
    SelectSeq(order, LAMBDA k : \E j \in 1..Len(keys) : keys[j] = k)

MachineKeyOrder == <<"Conveyor", "Filler", "Mixer", "Packer">>

ShiftKeyOrder == <<"Afternoon", "Morning", "Night">>

\* C18: the rows of machine_wise_analysis and of shift_wise_analysis come
\* in the alphabetical order of the machine and shift names, those of
\* monthly_trend_analysis in chronological order of the year-month of the
\* record dates; every key occurs once, so the row order depends on the set
\* of keys only, never on an aggregate value.
C18_RowsOrderedByKey ==
    /\ machine_analysis # None =>
          KeyColumn(machine_analysis, "Machine_Name") =
              Present(MachineKeyOrder,
                      KeyColumn(machine_analysis, "Machine_Name"))
    /\ shift_analysis # None =>
          KeyColumn(shift_analysis, "Shift") =
              Present(ShiftKeyOrder, KeyColumn(shift_analysis, "Shift"))
    /\ monthly_analysis # None =>
          \A j \in Rows(monthly_analysis) :
              \A k \in Rows(monthly_analysis) :
                  j < k => heap[monthly_analysis][j].YearMonth <
                               heap[monthly_analysis][k].YearMonth

\* C18 witness: the three aggregations of a batch whose records come in
\* descending key order and whose first machine has the largest output
C18_ThreeKeysAggregated ==
    /\ machine_analysis # None
    /\ shift_analysis # None
    /\ monthly_analysis # None
    /\ Len(heap[machine_analysis]) = 3
    /\ Len(heap[shift_analysis]) = 3
    /\ Len(heap[monthly_analysis]) = 3
    /\ heap[oee_data][1].Machine_Name = "Packer"
    /\ heap[oee_data][2].Machine_Name = "Mixer"
    /\ heap[oee_data][3].Machine_Name = "Filler"
    /\ RLt(heap[machine_analysis][1].Total_Units,
           heap[machine_analysis][3].Total_Units)

\* C19 as stated: the result of machine_wise_analysis has an entry for
\* each of the four machines and the result of shift_wise_analysis one for
\* each of the three shifts, also when the batch has no record for the key.
C19_EveryKeyHasEntry ==
    /\ fault = "none"
    /\ machine_analysis # None =>
          \A m \in 1..Len(machines) :
              \E j \in Rows(machine_analysis) :
                  heap[machine_analysis][j].Machine_Name = machines[m]
    /\ shift_analysis # None =>
          \A s \in 1..Len(shifts) :
              \E j \in Rows(shift_analysis) :
                  heap[shift_analysis][j].Shift = shifts[s]

\* x is v rounded to the nearest multiple of 1/s
NearestMultiple(x, v, s) ==
    /\ RMul(x, R(s)).d = 1
    /\ RLe(RSub(x, v), Norm(1, 2 * s))
    /\ RLe(RSub(v, x), Norm(1, 2 * s))

\* the total downtime of the records of one reason, from the records read
ReasonTotal(k) ==
    SumFrom(Group(DowntimeData(heap[detailed_raw]), "Downtime_Reason", k),
            "Downtime_Minutes", 1)

\* the sum of the first k totals of the Pareto table / the grand total x 100
CumulativeFormula(k) ==
    RDiv(RMul(SumFrom(SubSeq(heap[downtime_summary], 1, k),
                      "Total_Downtime_Min", 1), R(100)),
         SumFrom(heap[downtime_summary], "Total_Downtime_Min", 1))

\* C14: in every non-empty table of downtime_pareto_analysis the
\* Cumulative_Pct column never decreases from one row to the next and its
\* last value is within 0.1 of 100.
C14_CumulativeRises ==
    (downtime_summary # None /\ Len(heap[downtime_summary]) > 0) =>
        LET table == heap[downtime_summary]
            last  == table[Len(table)].Cumulative_Pct
        IN  /\ \A j \in 1..(Len(table) - 1) :
                  RLe(table[j].Cumulative_Pct, table[j + 1].Cumulative_Pct)
            /\ RLe(Norm(999, 10), last)
            /\ RLe(last, Norm(1001, 10))

\* C14 witness: a Pareto table of three reasons with totals 100, 50 and 25
C14_ThreeUnequalReasons ==
    /\ downtime_summary # None
    /\ Len(heap[downtime_summary]) = 3
    /\ heap[downtime_summary][1].Total_Downtime_Min = R(100)
    /\ heap[downtime_summary][2].Total_Downtime_Min = R(50)
    /\ heap[downtime_summary][3].Total_Downtime_Min = R(25)
    /\ heap[downtime_summary][2].Cumulative_Pct = Norm(857, 10)

\* the rows of the Pareto table carry the total of their reason and come
\* with the largest total first
ParetoOrdered ==
    LET table == heap[downtime_summary]
    IN  /\ \A j \in 1..Len(table) :
              table[j].Total_Downtime_Min =
                  ReasonTotal(table[j].Downtime_Reason)
        /\ \A j \in 1..(Len(table) - 1) :
              RLe(table[j + 1].Total_Downtime_Min,
                  table[j].Total_Downtime_Min)

\* totals 100, 50 and 50 give the order [100, 50, 50] and the cumulative
\* percentages [50.0, 75.0, 100.0]
ParetoScenario ==
    LET table == heap[downtime_summary]
    IN  (/\ Len(table) = 3
         /\ \E j \in 1..3 :
               /\ table[j].Total_Downtime_Min = R(100)
               /\ \A k \in (1..3) \ {j} :
                     table[k].Total_Downtime_Min = R(50))
        => /\ table[1].Total_Downtime_Min = R(100)
           /\ table[1].Cumulative_Pct = R(50)
           /\ table[2].Cumulative_Pct = R(75)
           /\ table[3].Cumulative_Pct = R(100)

\* C15 as stated: the rows come in descending order of the total downtime
\* per reason and row k stores (sum of the first k totals) / (grand total)
\* x 100; totals 100, 50, 50 give [100, 50, 50] and [50.0, 75.0, 100.0].
C15_ExactCumulative ==
    downtime_summary # None =>
        /\ ParetoOrdered
        /\ \A k \in Rows(downtime_summary) :
              heap[downtime_summary][k].Cumulative_Pct = CumulativeFormula(k)
        /\ ParetoScenario

\* C15 amended: the rows come in descending order of the total downtime
\* per reason and row k stores (sum of the first k totals) / (grand total)
\* x 100 rounded to one decimal; totals 100, 50, 50 give [100, 50, 50] and
\* [50.0, 75.0, 100.0].
C15_RoundedCumulative ==
    downtime_summary # None =>
        /\ ParetoOrdered
        /\ \A k \in Rows(downtime_summary) :
              NearestMultiple(heap[downtime_summary][k].Cumulative_Pct,
                              CumulativeFormula(k), 10)
        /\ ParetoScenario

\* C15 witness: the Pareto table of a batch with 100 minutes of changeover,
\* 50 of cleaning and 50 of breakdown
C15_ScenarioTable ==
    /\ downtime_summary # None
    /\ Len(heap[detailed_raw]) = 3
    /\ Len(heap[downtime_summary]) = 3
    /\ heap[downtime_summary][1].Downtime_Reason = "Changeover"
    /\ heap[downtime_summary][2].Total_Downtime_Min = R(50)
    /\ heap[downtime_summary][3].Total_Downtime_Min = R(50)

\* (actual_cycle_time - ideal_cycle_time) / ideal_cycle_time x 100
SpeedLossFormula(row) ==
    RDiv(RMul(RSub(row.Actual_Cycle_Time, row.Ideal_Cycle_Time), R(100)),
         row.Ideal_Cycle_Time)

\* position in self.data of the j-th worst record
WorstPos(j) == heap[worst_speed][j].index + 1

\* row a of self.data ranks before row b: larger speed loss, or equal
\* speed loss and earlier in the batch
RanksBefore(a, b) ==
    LET data == heap[detailed_data]
    IN  \/ RLt(data[b].Speed_Loss_Percent, data[a].Speed_Loss_Percent)
        \/ /\ data[b].Speed_Loss_Percent = data[a].Speed_Loss_Percent
           /\ a < b

\* the worst records are the 10 first-ranking records of self.data (all if
\* fewer), in ranking order, each with its own date, machine, shift and
\* speed loss
WorstAreTopTen ==
    LET data  == heap[detailed_data]
        worst == heap[worst_speed]
        n     == IF Len(data) < 10 THEN Len(data) ELSE 10
    IN  /\ Len(worst) = n
        /\ \A j \in 1..n :
              /\ WorstPos(j) \in 1..Len(data)
              /\ worst[j].Speed_Loss_Percent =
                    data[WorstPos(j)].Speed_Loss_Percent
              /\ worst[j].Date = data[WorstPos(j)].Date
              /\ worst[j].Machine_Name = data[WorstPos(j)].Machine_Name
              /\ worst[j].Shift = data[WorstPos(j)].Shift
        /\ \A j \in 1..n : \A k \in 1..n :
              j < k => RanksBefore(WorstPos(j), WorstPos(k))
        /\ \A e \in 1..Len(data) :
              (\A j \in 1..n : WorstPos(j) # e) =>
                  \A j \in 1..n : RanksBefore(WorstPos(j), e)

\* C20 as stated: speed_loss_analysis gives every record speed_loss_pct =
\* (actual - ideal) / ideal x 100 and returns the 10 records (all if fewer)
\* with the largest speed_loss_pct, in descending order, equal values in
\* their original batch order.
C20_WorstByExactLoss ==
    worst_speed # None =>
        /\ \A i \in Rows(detailed_data) :
              heap[detailed_data][i].Speed_Loss_Percent =
                  SpeedLossFormula(heap[detailed_data][i])
        /\ WorstAreTopTen

\* C20 amended: speed_loss_analysis gives every record speed_loss_pct =
\* (actual - ideal) / ideal x 100 rounded to two decimals and returns the
\* 10 records (all if fewer) with the largest rounded speed_loss_pct, in
\* descending order, equal values in their original batch order.
C20_WorstByRoundedLoss ==
    worst_speed # None =>
        /\ \A i \in Rows(detailed_data) :
              NearestMultiple(heap[detailed_data][i].Speed_Loss_Percent,
                              SpeedLossFormula(heap[detailed_data][i]), 100)
        /\ WorstAreTopTen

\* C20 witness: of eleven records the ten worst were returned; the first
\* and the last record of the batch have the smaller speed loss, and the
\* last one is the record left out
C20_EleventhLeftOut ==
    /\ worst_speed # None
    /\ Len(heap[detailed_data]) = 11
    /\ Len(heap[worst_speed]) = 10
    /\ heap[detailed_data][1].Machine_Name = "Mixer"
    /\ heap[detailed_data][11].Machine_Name = "Mixer"
    /\ heap[detailed_data][2].Machine_Name = "Filler"
    /\ heap[worst_speed][1].index = 1
    /\ heap[worst_speed][10].index = 0

\* a step in which an aggregation or a loss analysis returns
AnalysisStep ==
    <<machine_analysis, shift_analysis, monthly_analysis, downtime_summary,
      machine_downtime, speed_loss_summary, worst_speed, quality_summary,
      shift_quality>>' #
    <<machine_analysis, shift_analysis, monthly_analysis, downtime_summary,
      machine_downtime, speed_loss_summary, worst_speed, quality_summary,
      shift_quality>>

\* C21 as stated: every aggregation and every loss analysis leaves the
\* table it reads, and every other table that exists, with the same
\* columns and values; its results are new tables.
C21_AnalysesReadOnly ==
    [][AnalysisStep => \A t \in 1..Len(heap) : heap'[t] = heap[t]]_vars

\* the records without units or without a positive cycle time
Degenerate(table) ==
    {i \in 1..Len(table) :
        \/ table[i].Total_Units_Produced = R(0)
        \/ RLe(table[i].Actual_Cycle_Time, R(0))}

\* C22 as stated: after a run of calculate_oee_metrics that met degenerate
\* records the caller can read a discard tally, a count held by the
\* analyzer.
C22_DiscardTally ==
    (oee_data # None /\ Degenerate(heap[oee_data]) # {}) =>
        \E a \in DOMAIN AnalyzerAttributes : AnalyzerAttributes[a] = "int"

\* the reasons of the bracket that a stored downtime selects
Bracket(downtime) ==
    IF RLt(R(60), downtime) THEN {"Breakdown", "Changeover"}
    ELSE IF RLe(R(30), downtime) THEN {"Cleaning", "Breakdown"}
    ELSE IF RLt(R(0), downtime) THEN {"Minor Stoppage", "Power Failure"}
    ELSE {"None"}

\* C24 as stated: the stored downtime_reason of every emitted record is in
\* the bracket of its stored downtime_minutes: above 60 Breakdown or
\* Changeover, 30 to 60 Cleaning or Breakdown, above 0 and below 30 Minor
\* Stoppage or Power Failure, 0 None.
C24_ReasonInBracket ==
    production_data # None =>
        \A i \in Rows(production_data) :
            heap[production_data][i].Downtime_Reason \in
                Bracket(heap[production_data][i].Downtime_Minutes)

\* the record names a machine, shift or downtime reason outside the fixed
\* sets
Foreign(row) ==
    \/ row.Machine_Name \notin {"Mixer", "Filler", "Packer", "Conveyor"}
    \/ row.Shift \notin {"Morning", "Afternoon", "Night"}
    \/ row.Downtime_Reason \notin
          {"Breakdown", "Changeover", "Cleaning", "Minor Stoppage",
           "Power Failure", "None"}

\* C23 as stated: for a batch with a record that names a machine, shift or
\* downtime reason outside the fixed sets, no calculator, aggregation or
\* loss-analysis result exists: the first such call has ended the run with
\* a fault.
C23_ForeignAborts ==
    (\E i \in Rows(production_data) : Foreign(heap[production_data][i])) =>
        /\ oee_data = None
        /\ oee_results = None
        /\ machine_analysis = None
        /\ shift_analysis = None
        /\ downtime_summary = None

\* C25: generate_production_data ends without a division fault and every
\* record it emits has actual_cycle_time > 0, a positive available time
\* (planned time less downtime) and total_units_produced >= 1.
C25_NoDegenerateRecord ==
    raw_data # None =>
        /\ fault \in {"none", "KeyError"}
        /\ \A i \in Rows(raw_data) :
              LET row == heap[raw_data][i]
              IN  /\ RLt(R(0), row.Actual_Cycle_Time)
                  /\ RLt(R(0), RSub(row.Planned_Production_Time,
                                    row.Downtime_Minutes))
                  /\ RLe(R(1), row.Total_Units_Produced)

\* C25 witness: a Night record of the Mixer with the downtime at its cap
\* and the cycle time next to the top of the range makes 193 units
C25_FewestUnits ==
    /\ raw_data # None
    /\ \E i \in Rows(raw_data) :
          /\ heap[raw_data][i].Shift = "Night"
          /\ heap[raw_data][i].Machine_Name = "Mixer"
          /\ heap[raw_data][i].Downtime_Minutes = R(210)
          /\ heap[raw_data][i].Actual_Cycle_Time = Norm(6498, 100)
          /\ heap[raw_data][i].Total_Units_Produced = R(193)

\* C28: for every record emitted by generate_production_data and passed
\* through calculate_oee_metrics the raw performance is below 100, the
\* four stored metrics are the uncapped formulas, and oee is at most each
\* of availability, performance and quality.
C28_CapNeverApplies ==
    (oee_data # None /\ attempts # <<>>) =>
        \A i \in Rows(oee_data) :
            LET row == heap[oee_data][i]
            IN  /\ RLt(FormulaPerformance(row), R(100))
                /\ HasMetrics(row, FormulaAvailability(row),
                              FormulaPerformance(row), FormulaQuality(row),
                              FormulaOEE(row))
                /\ RLe(row.OEE, row.Availability)
                /\ RLe(row.OEE, row.Performance)
                /\ RLe(row.OEE, row.Quality)

\* C28 witness: a Night record of the Conveyor at the fast end of its cycle
\* range (1.9 against the ideal 1.8) whose downtime 209.96 is stored as
\* 210.0: 6632 units over 210 minutes, a performance above 1.8 / 1.9
C28_FastestConveyor ==
    /\ oee_data # None
    /\ attempts # <<>>
    /\ \E i \in Rows(oee_data) :
          /\ heap[oee_data][i].Machine_Name = "Conveyor"
          /\ heap[oee_data][i].Shift = "Night"
          /\ heap[oee_data][i].Actual_Cycle_Time = Norm(19, 10)
          /\ heap[oee_data][i].Downtime_Minutes = R(210)
          /\ heap[oee_data][i].Total_Units_Produced = R(6632)
          /\ RLt(RDiv(R(1800), R(19)), heap[oee_data][i].Performance)

\* the step assigns a new Pareto / speed-loss / quality-loss result
ParetoStep == downtime_summary' # downtime_summary
SpeedStep == worst_speed' # worst_speed
QualityStep == quality_summary' # quality_summary

\* C26: for a fixed batch each of the three loss analyses returns, in
\* whatever order and however often the three are called, the tables it
\* computes from the batch alone (the Pareto up to the order of rows with
\* equal totals), and a second call returns the tables of the first.
C26_SameInEveryOrder ==
    [][detailed_raw # None =>
        LET batch    == WithMetrics(heap[detailed_raw])
            downtime == DowntimeData(batch)
            summary  == ReasonStats(downtime)
        IN  /\ ParetoStep =>
                  /\ \E p \in DescendingOrders(summary,
                                                "Total_Downtime_Min") :
                        heap'[downtime_summary'] = ParetoTable(summary, p)
                  /\ heap'[machine_downtime'] = MachineDowntime(downtime)
                  /\ downtime_summary # None =>
                        /\ heap'[downtime_summary'] = heap[downtime_summary]
                        /\ heap'[machine_downtime'] = heap[machine_downtime]
            /\ SpeedStep =>
                  /\ heap'[speed_loss_summary'] =
                         SpeedSummary(WithSpeedLoss(batch))
                  /\ heap'[worst_speed'] = WorstSpeed(WithSpeedLoss(batch))
                  /\ worst_speed # None =>
                        /\ heap'[speed_loss_summary'] =
                               heap[speed_loss_summary]
                        /\ heap'[worst_speed'] = heap[worst_speed]
            /\ QualityStep =>
                  /\ heap'[quality_summary'] =
                         QualitySummary(WithDefectRate(batch))
                  /\ heap'[shift_quality'] =
                         ShiftQuality(WithDefectRate(batch))
                  /\ quality_summary # None =>
                        /\ heap'[quality_summary'] = heap[quality_summary]
                        /\ heap'[shift_quality'] = heap[shift_quality]]_vars

\* C26 witness: the three analyses were each called twice on a batch of
\* two records, the second calls in the order quality, speed, Pareto
C26_AllCalledTwice ==
    /\ fault = "none"
    /\ repeats = {"pareto", "speed", "quality"}
    /\ Len(heap[detailed_raw]) = 2
    /\ quality_summary < worst_speed
    /\ worst_speed < downtime_summary

\* C27 as stated: the table the Pareto reads and the table the speed-loss
\* and quality-loss analyses read hold the same batch, whatever generate
\* and calculate calls came before the DetailedOEEAnalysis was built.
C27_SameBatch ==
    (detailed_raw # None /\ detailed_data # None) =>
        /\ Len(heap[detailed_raw]) = Len(heap[detailed_data])
        /\ \A i \in 1..Len(heap[detailed_raw]) :
              \A c \in {"Date", "Shift", "Machine_Name",
                         "Downtime_Minutes"} :
                  i <= Len(heap[detailed_data]) =>
                      heap[detailed_raw][i][c] = heap[detailed_data][i][c]

\* the records of the batch with stored downtime > 0
WithDowntime(raw) ==
    {i \in 1..Len(raw) : RLt(R(0), raw[i].Downtime_Minutes)}

\* C29: in the downtime Pareto table no row is labelled 'None', every
\* record with stored downtime > 0 has exactly one row of its reason, the
\* Frequency values sum to the number of records with downtime > 0 and the
\* row totals sum to the downtime of the whole batch.
C29_ParetoCountsDowntimeOnce ==
    downtime_summary # None =>
        LET table == heap[downtime_summary]
            raw   == heap[detailed_raw]
        IN  /\ \A j \in 1..Len(table) : table[j].Downtime_Reason # "None"
            /\ \A i \in WithDowntime(raw) :
                  Cardinality({j \in 1..Len(table) :
                      table[j].Downtime_Reason = raw[i].Downtime_Reason}) = 1
            /\ SumFrom(table, "Frequency", 1) =
                   R(Cardinality(WithDowntime(raw)))
            /\ SumFrom(table, "Total_Downtime_Min", 1) =
                   SumFrom(raw, "Downtime_Minutes", 1)

\* C29 witness: the Pareto of a batch of four records, two of them without
\* downtime and two with the same reason
C29_TwoOfFourCounted ==
    /\ downtime_summary # None
    /\ Len(heap[detailed_raw]) = 4
    /\ Cardinality(WithDowntime(heap[detailed_raw])) = 2
    /\ Len(heap[downtime_summary]) = 1
    /\ heap[downtime_summary][1].Frequency = R(2)
    /\ heap[downtime_summary][1].Total_Downtime_Min = R(150)

\* a <= b, two undefined values (0 / 0 on a record without units) counted
\* as equal
LeOrBothUndefined(a, b) == (IsNaN(a) /\ IsNaN(b)) \/ RLe(a, b)

====
